---- MODULE Spec2Model ----
(***************************************************************************)
(* Model of scripts/obsidian/obsidian-xlsx-to-md.py: the graph builder,    *)
(* the append-only note merger and the per-title write loop of main().     *)
(* Texts, titles, descriptions and sources are strings; the string         *)
(* operations of the script (strip, splitlines, join, the regular          *)
(* expressions) are computed character by character.                       *)
(***************************************************************************)
EXTENDS Integers, Sequences, FiniteSets, TLC

VARIABLES
    files,      \* the output directory: file name -> text of the file
    before,     \* the output directory as it was before the last update / the run
    req,        \* the arguments of the last update_note_file_append_only call
    runs,       \* number of updates done so far
    rows,       \* the row records handed to the graph builder
    next_row,   \* index (1-based) of the next row the builder's loop takes
    parent_to_children, child_to_parents, leaf_info,
    edge_count, leaf_entry_count,
    order,      \* main(): the sorted title list the write loop walks
    done,       \* main(): number of titles of `order` already written
    pc          \* position of the program in the specification at hand

vars == <<files, before, req, runs, rows, next_row, parent_to_children,
          child_to_parents, leaf_info, edge_count, leaf_entry_count,
          order, done, pc>>

-----------------------------------------------------------------------------
(* Python str primitives *)

Ch(s, i) == IF i >= 1 /\ i <= Len(s) THEN SubSeq(s, i, i) ELSE ""

Sub(s, a, b) == IF a > b THEN "" ELSE SubSeq(s, a, b)

Min(S) == CHOOSE x \in S : \A y \in S : x <= y

Range(f) == {f[i] : i \in DOMAIN f}

\* the characters str.strip() and the regex class \s remove (those the model uses)
Whitespace == {" ", "\t", "\n"}

RECURSIVE LStrip(_)
LStrip(s) == IF Len(s) > 0 /\ Ch(s, 1) \in Whitespace
             THEN LStrip(Sub(s, 2, Len(s))) ELSE s

RECURSIVE RStrip(_)
RStrip(s) == IF Len(s) > 0 /\ Ch(s, Len(s)) \in Whitespace
             THEN RStrip(Sub(s, 1, Len(s) - 1)) ELSE s

Strip(s) == LStrip(RStrip(s))

\* str.rstrip(" .")
RECURSIVE RStripDotSpace(_)
RStripDotSpace(s) == IF Len(s) > 0 /\ Ch(s, Len(s)) \in {" ", "."}
                     THEN RStripDotSpace(Sub(s, 1, Len(s) - 1)) ELSE s

StartsWith(s, p) == Len(s) >= Len(p) /\ Sub(s, 1, Len(p)) = p

\* first index >= i of s holding a character of `stop`, Len(s)+1 when none
RECURSIVE RunEnd(_, _, _)
RunEnd(s, i, stop) == IF i > Len(s) \/ Ch(s, i) \in stop THEN i
                      ELSE RunEnd(s, i + 1, stop)

\* str.splitlines(): no empty last line after a final line break
RECURSIVE SplitLines(_)
SplitLines(s) ==
    IF s = "" THEN <<>>
    ELSE LET i == RunEnd(s, 1, {"\n"})
         IN  <<Sub(s, 1, i - 1)>> \o SplitLines(Sub(s, i + 1, Len(s)))

\* "\n".join(lines)
RECURSIVE Join(_)
Join(lines) == IF lines = <<>> THEN ""
               ELSE IF Len(lines) = 1 THEN lines[1]
               ELSE lines[1] \o "\n" \o Join(Tail(lines))

\* re.sub(r"\s+", " ", s)
RECURSIVE CollapseWS(_)
CollapseWS(s) ==
    IF s = "" THEN ""
    ELSE IF Ch(s, 1) \in Whitespace
         THEN " " \o CollapseWS(LStrip(s))
         ELSE Ch(s, 1) \o CollapseWS(Sub(s, 2, Len(s)))

UpperChars == "ABCDEFGHIJKLMNOPQRSTUVWXYZ"
LowerChars == "abcdefghijklmnopqrstuvwxyz"
\* the printable ASCII characters in code point order: 32..95 and 97..126
AsciiLow == " !\"#$%&'()*+,-./0123456789:;<=>?@" \o UpperChars \o "[\\]^_"
AsciiHigh == LowerChars \o "{|}~"

LowerMap == [c \in {Ch(UpperChars, i) : i \in 1..26} |->
                Ch(LowerChars, CHOOSE i \in 1..26 : Ch(UpperChars, i) = c)]

OrdMap == [c \in {Ch(AsciiLow, i) : i \in 1..Len(AsciiLow)}
                  \cup {Ch(AsciiHigh, i) : i \in 1..Len(AsciiHigh)} |->
             IF \E i \in 1..Len(AsciiLow) : Ch(AsciiLow, i) = c
             THEN 31 + (CHOOSE i \in 1..Len(AsciiLow) : Ch(AsciiLow, i) = c)
             ELSE 96 + (CHOOSE i \in 1..Len(AsciiHigh) : Ch(AsciiHigh, i) = c)]

\* ord(c)
Ord(c) == IF c = "\n" THEN 10 ELSE IF c = "\t" THEN 9 ELSE OrdMap[c]

\* str.lower()
RECURSIVE Lower(_)
Lower(s) == IF s = "" THEN ""
            ELSE (IF Ch(s, 1) \in DOMAIN LowerMap THEN LowerMap[Ch(s, 1)] ELSE Ch(s, 1))
                 \o Lower(Sub(s, 2, Len(s)))

\* a < b on str (code point order)
RECURSIVE StrLess(_, _)
StrLess(a, b) ==
    IF b = "" THEN FALSE
    ELSE IF a = "" THEN TRUE
    ELSE IF Ch(a, 1) = Ch(b, 1) THEN StrLess(Sub(a, 2, Len(a)), Sub(b, 2, Len(b)))
    ELSE Ord(Ch(a, 1)) < Ord(Ch(b, 1))

\* the lists sorted(S, key=lambda v: v.lower()) can return: the sort is stable,
\* and titles with equal keys come in the set's iteration order
SortedByLower(S) ==
    {sq \in [1..Cardinality(S) -> S] :
        /\ \A i, j \in DOMAIN sq : i # j => sq[i] # sq[j]
        /\ \A i, j \in DOMAIN sq : i < j => ~StrLess(Lower(sq[j]), Lower(sq[i]))}

-----------------------------------------------------------------------------
(* Utility *)

ForbiddenChars == {"\\", "/", ":", "*", "?", "\"", "<", ">", "|"}

\* re.sub(r'[\\/:*?"<>|]', " - ", name)
RECURSIVE ReplaceForbidden(_)
ReplaceForbidden(s) ==
    IF s = "" THEN ""
    ELSE (IF Ch(s, 1) \in ForbiddenChars THEN " - " ELSE Ch(s, 1))
         \o ReplaceForbidden(Sub(s, 2, Len(s)))

sanitize_filename(name) ==
    LET n1 == Strip(name)
        n2 == ReplaceForbidden(n1)
        n3 == Strip(CollapseWS(n2))
        n4 == RStripDotSpace(n3)
    IN  IF n4 = "" THEN "Untitled" ELSE n4

-----------------------------------------------------------------------------
(* Graph building *)

\* dict helpers: a dict is a function whose DOMAIN is the set of its keys
Put(d, k, v) == [x \in DOMAIN d \cup {k} |-> IF x = k THEN v ELSE d[x]]

\* defaultdict access d[k] (creates the key) and dict.setdefault(k, dflt)
SetDefault(d, k, dflt) == IF k \in DOMAIN d THEN d ELSE Put(d, k, dflt)

\* dict.get(k, dflt)
Get(d, k, dflt) == IF k \in DOMAIN d THEN d[k] ELSE dflt

EmptyDict == [x \in {} |-> {}]

\* the graph under construction, g = [p2c, c2p, leaf, edges, entries]
EmptyGraph == [p2c |-> EmptyDict, c2p |-> EmptyDict, leaf |-> EmptyDict,
               edges |-> 0, entries |-> 0]

\* add_edge with the test "if c not in parent_to_children[p]" left out
add_edge_counting_repeats(g, p, c) ==
    LET p2c0 == SetDefault(g.p2c, p, {})
        c2p0 == SetDefault(g.c2p, c, {})
    IN  [g EXCEPT !.edges = g.edges + 1,
                  !.p2c = Put(p2c0, p, p2c0[p] \cup {c}),
                  !.c2p = Put(c2p0, c, c2p0[c] \cup {p})]

\* one pass of the loop "for i in range(len(parts) - 1)"
add_edge(g, p, c) ==
    LET p2c0 == SetDefault(g.p2c, p, {})
        c2p0 == SetDefault(g.c2p, c, {})
    IN  [g EXCEPT !.edges = IF c \notin p2c0[p] THEN g.edges + 1 ELSE g.edges,
                  !.p2c = Put(p2c0, p, p2c0[p] \cup {c}),
                  !.c2p = Put(c2p0, c, c2p0[c] \cup {p})]

RECURSIVE add_edges(_, _, _)
add_edges(g, parts, i) ==
    IF i > Len(parts) - 1 THEN g
    ELSE add_edges(add_edge(g, parts[i], parts[i + 1]), parts, i + 1)

\* add_entry: the "if description or source" block of the loop body
add_leaf_entry(g, r) ==
    LET leaf_title == r.parts[Len(r.parts)]
        description == Strip(r.description)
        source == Strip(r.source)
    IN  IF description # "" \/ source # ""
        THEN [g EXCEPT !.leaf = Put(g.leaf, leaf_title,
                                    Append(Get(g.leaf, leaf_title, <<>>),
                                           <<description, source>>)),
                       !.entries = g.entries + 1]
        ELSE g

\* build_row with the two setdefault calls that end the loop body left out
build_row_without_setdefault(g, r) ==
    IF r.parts = <<>> THEN g
    ELSE add_leaf_entry(add_edges(g, r.parts, 1), r)

\* the body of the loop "for r in rows"
build_row(g, r) ==
    IF r.parts = <<>> THEN g
    ELSE LET g2 == add_leaf_entry(add_edges(g, r.parts, 1), r)
         IN  [g2 EXCEPT !.p2c = SetDefault(g2.p2c, r.parts[Len(r.parts)], {}),
                        !.c2p = SetDefault(g2.c2p, r.parts[1], {})]

RECURSIVE build_title_graph_from_parts(_)
build_title_graph_from_parts(rs) ==
    IF rs = <<>> THEN EmptyGraph
    ELSE build_row(build_title_graph_from_parts(SubSeq(rs, 1, Len(rs) - 1)),
                   rs[Len(rs)])

\* main(): all_titles
all_titles(g) == DOMAIN g.p2c \cup DOMAIN g.c2p \cup DOMAIN g.leaf

-----------------------------------------------------------------------------
(* Append-only Markdown updating.  Indices are Python's: lines[i] of the    *)
(* script is lines[i + 1] here.                                            *)

find_section_range(lines, header) ==
    LET hline == "## " \o header
        starts == {i \in 0..(Len(lines) - 1) : Strip(lines[i + 1]) = hline}
    IN  IF starts = {} THEN <<-1, -1>>
        ELSE LET start == Min(starts)
                 ends == {j \in (start + 1)..(Len(lines) - 1) :
                             StartsWith(lines[j + 1], "## ")}
             IN  <<start, IF ends = {} THEN Len(lines) ELSE Min(ends)>>

\* ensure_section without the blank line before an appended heading
ensure_section_without_separator(lines, header) ==
    LET r == find_section_range(lines, header)
    IN  IF r[1] # -1 THEN [lines |-> lines, s |-> r[1], e |-> r[2]]
        ELSE LET l2 == lines \o <<"## " \o header, "">>
             IN  [lines |-> l2, s |-> Len(l2) - 2, e |-> Len(l2)]

\* returns [lines, s, e]
ensure_section(lines, header) ==
    LET r == find_section_range(lines, header)
    IN  IF r[1] # -1 THEN [lines |-> lines, s |-> r[1], e |-> r[2]]
        ELSE LET l1 == IF lines # <<>> /\ Strip(lines[Len(lines)]) # ""
                       THEN Append(lines, "") ELSE lines
                 l2 == l1 \o <<"## " \o header, "">>
             IN  [lines |-> l2, s |-> Len(l2) - 2, e |-> Len(l2)]

\* the group(1) of every match WIKILINK_RE.finditer finds in ln from index i on,
\* stripped.  \[\[([^\]|]+)(?:\|[^\]]+)?\]\]: both classes are greedy and what
\* follows them cannot start inside them, so a match takes the maximal runs.
RECURSIVE wikilinks_from(_, _)
wikilinks_from(ln, i) ==
    IF i + 4 > Len(ln) THEN {}
    ELSE IF Sub(ln, i, i + 1) # "[[" THEN wikilinks_from(ln, i + 1)
    ELSE LET g == RunEnd(ln, i + 2, {"]", "|"})
             h == RunEnd(ln, g + 1, {"]"})
             target == Strip(Sub(ln, i + 2, g - 1))
         IN  IF g = i + 2 THEN wikilinks_from(ln, i + 1)
             ELSE IF Sub(ln, g, g + 1) = "]]"
                  THEN {target} \cup wikilinks_from(ln, g + 2)
             ELSE IF Ch(ln, g) = "|" /\ h > g + 1 /\ Sub(ln, h, h + 1) = "]]"
                  THEN {target} \cup wikilinks_from(ln, h + 2)
             ELSE wikilinks_from(ln, i + 1)

\* lines[start:end]
Slice(lines, start, end) == SubSeq(lines, start + 1, end)

extract_existing_wikilinks(lines, start, end) ==
    UNION {wikilinks_from(lines[i], 1) : i \in (start + 1)..end}

normalize_leaf_pair(description, source) ==
    Lower(Strip(CollapseWS(Strip(description) \o "\n" \o Strip(source))))

DescPrefix == "- **Description:**"
SrcPrefix == "**Source:**"

\* the scan of extract_existing_leaf_pairs over ls: the keys in the order the
\* loop adds them; has_desc/desc is the loop's variable desc (None or a string)
RECURSIVE leaf_pair_scan(_, _, _)
leaf_pair_scan(ls, has_desc, desc) ==
    IF ls = <<>> THEN <<>>
    ELSE LET t == Strip(ls[1])
         IN  IF StartsWith(t, DescPrefix)
             THEN leaf_pair_scan(Tail(ls), TRUE,
                                 Strip(Sub(t, Len(DescPrefix) + 1, Len(t))))
             ELSE IF has_desc /\ StartsWith(t, SrcPrefix)
             THEN <<normalize_leaf_pair(desc, Strip(Sub(t, Len(SrcPrefix) + 1, Len(t))))>>
                  \o leaf_pair_scan(Tail(ls), FALSE, "")
             ELSE leaf_pair_scan(Tail(ls), has_desc, desc)

extract_existing_leaf_pairs(lines, start, end) ==
    Range(leaf_pair_scan(Slice(lines, start, end), FALSE, ""))

\* lines.insert(insert_at, x) for each x of new, insert_at advancing
InsertAt(lines, insert_at, new) ==
    SubSeq(lines, 1, insert_at) \o new \o SubSeq(lines, insert_at + 1, Len(lines))

\* SelectMissing comparing titles case-insensitively, also among the candidates
RECURSIVE SelectMissing_ignoring_case(_, _)
SelectMissing_ignoring_case(sorted, existing) ==
    IF sorted = <<>> THEN <<>>
    ELSE IF Lower(sorted[1]) \in {Lower(x) : x \in existing}
         THEN SelectMissing_ignoring_case(Tail(sorted), existing)
         ELSE <<sorted[1]>>
              \o SelectMissing_ignoring_case(Tail(sorted), existing \cup {sorted[1]})

\* [x for x in sorted(...) if x not in existing]
RECURSIVE SelectMissing(_, _)
SelectMissing(sorted, existing) ==
    IF sorted = <<>> THEN <<>>
    ELSE (IF sorted[1] \notin existing THEN <<sorted[1]>> ELSE <<>>)
         \o SelectMissing(Tail(sorted), existing)

LinkLine(item) == "- [[" \o item \o "]]"

\* sorted_links is sorted(new_links, key=lambda v: v.lower())
append_missing_links(lines, section_header, sorted_links) ==
    LET sec == ensure_section(lines, section_header)
        existing == extract_existing_wikilinks(sec.lines, sec.s, sec.e)
        to_add == SelectMissing(sorted_links, existing)
    IN  InsertAt(sec.lines, sec.e, [i \in DOMAIN to_add |-> LinkLine(to_add[i])])

LeafBlock(desc, src) ==
    <<RStrip("- **Description:** " \o desc), RStrip("  **Source:** " \o src)>>

\* the loop "for desc, src in new_leaf_pairs": the lines of to_add_blocks
RECURSIVE leaf_blocks_to_add(_, _)
leaf_blocks_to_add(pairs, existing) ==
    IF pairs = <<>> THEN <<>>
    ELSE LET key == normalize_leaf_pair(pairs[1][1], pairs[1][2])
         IN  IF key # "" /\ key \notin existing
             THEN LeafBlock(pairs[1][1], pairs[1][2])
                  \o leaf_blocks_to_add(Tail(pairs), existing \cup {key})
             ELSE leaf_blocks_to_add(Tail(pairs), existing)

append_missing_leaf_blocks(lines, new_leaf_pairs) ==
    LET sec == ensure_section(lines, "Description and source")
        existing == extract_existing_leaf_pairs(sec.lines, sec.s, sec.e)
    IN  InsertAt(sec.lines, sec.e, leaf_blocks_to_add(new_leaf_pairs, existing))

create_new_note_lines(title) ==
    <<"# " \o title, "", "## Parents", "", "## Children", "",
      "## Description and source", "">>

\* the list `lines` of update_note_file_append_only before it is serialised;
\* existing is <<text>> for the text read, <<>> when the file does not exist
merged_lines(existing, title, sorted_parents, sorted_children, add_leaf_pairs) ==
    LET l0 == IF existing = <<>> THEN create_new_note_lines(title)
              ELSE IF SplitLines(existing[1]) = <<>> THEN create_new_note_lines(title)
              ELSE SplitLines(existing[1])
        l1 == IF sorted_parents # <<>>
              THEN append_missing_links(l0, "Parents", sorted_parents) ELSE l0
        l2 == IF sorted_children # <<>>
              THEN append_missing_links(l1, "Children", sorted_children) ELSE l1
    IN  IF add_leaf_pairs # <<>>
        THEN append_missing_leaf_blocks(l2, add_leaf_pairs) ELSE l2

\* "\n".join(lines).rstrip() + "\n"
Serialize(lines) == RStrip(Join(lines)) \o "\n"

\* the text update_note_file_append_only writes
merged_text(existing, title, sorted_parents, sorted_children, add_leaf_pairs) ==
    Serialize(merged_lines(existing, title, sorted_parents, sorted_children,
                           add_leaf_pairs))

\* what open(file_path).read() gives: <<text>>, or <<>> when no such file
ReadFile(fs, file_path) == IF file_path \in DOMAIN fs THEN <<fs[file_path]>> ELSE <<>>

\* the directory after update_note_file_append_only(file_path, ...)
update_note_file_append_only(fs, file_path, title, sorted_parents, sorted_children, add_leaf_pairs) ==
    Put(fs, file_path,
        merged_text(ReadFile(fs, file_path), title, sorted_parents,
                    sorted_children, add_leaf_pairs))

-----------------------------------------------------------------------------
(* Bounds and input sets *)

MaxRows == 3        \* rows handed to the graph builder
MaxRuns == 2        \* consecutive updates of one note file

Row(parts, description, source) ==
    [parts |-> parts, description |-> description, source |-> source]

\* row records as read_xlsx_rows_by_columns produces them: parts non-empty,
\* every string stripped
RowPool ==
    { Row(<<"A", "B", "C">>, "", ""),
      Row(<<"A", "B", "D">>, "d", "s"),
      Row(<<"A">>, "", ""),
      Row(<<"D">>, "x", ""),
      Row(<<"B", "A">>, "", ""),
      Row(<<"C", "C">>, "", ""),
      Row(<<"A", "B">>, "", "s"),
      Row(<<"B", "C", "B">>, "", "") }

SeqsUpTo(S, n) == UNION {[1..k -> S] : k \in 0..n}

NoDict == EmptyDict
NoReq == [title |-> "", parents |-> <<>>, children |-> <<>>, leaf_pairs |-> <<>>]

-----------------------------------------------------------------------------
(* The graph builder, row by row *)

Graph == [p2c |-> parent_to_children, c2p |-> child_to_parents, leaf |-> leaf_info,
          edges |-> edge_count, entries |-> leaf_entry_count]

SetGraph(g) ==
    /\ parent_to_children' = g.p2c
    /\ child_to_parents' = g.c2p
    /\ leaf_info' = g.leaf
    /\ edge_count' = g.edges
    /\ leaf_entry_count' = g.entries

InitGraph ==
    /\ rows \in SeqsUpTo(RowPool, MaxRows)
    /\ next_row = 1
    /\ parent_to_children = EmptyDict
    /\ child_to_parents = EmptyDict
    /\ leaf_info = EmptyDict
    /\ edge_count = 0
    /\ leaf_entry_count = 0
    /\ files = NoDict
    /\ before = NoDict
    /\ req = NoReq
    /\ runs = 0
    /\ order = <<>>
    /\ done = 0
    /\ pc = "build"

\* one iteration of "for r in rows"
BuildRow ==
    /\ pc = "build"
    /\ next_row <= Len(rows)
    /\ SetGraph(build_row(Graph, rows[next_row]))
    /\ next_row' = next_row + 1
    /\ UNCHANGED <<files, before, req, runs, rows, order, done, pc>>

\* the loop is over: build_title_graph_from_parts returns
FinishBuild ==
    /\ pc = "build"
    /\ next_row > Len(rows)
    /\ pc' = "built"
    /\ UNCHANGED <<files, before, req, runs, rows, next_row, parent_to_children,
                   child_to_parents, leaf_info, edge_count, leaf_entry_count,
                   order, done>>

NextGraph == BuildRow \/ FinishBuild

SpecGraph == InitGraph /\ [][NextGraph]_vars

-----------------------------------------------------------------------------
(* The note merger: updates of one note file *)

NotePath == "T.md"
NoteTitle == "T"

\* the note file before the first update: texts a note can hold after manual
\* edits.  Trailing spaces and blank lines, a heading typed with a leading
\* space, sections missing or in another order, entries already present.
DocPool ==
    { "",
      "note  \n",
      "## Parents\n ## Children\n",
      "## Parents\n- [[A]]\n\n## Children\nsee [[a|x]]\n\n## Description and source\n- **Description:** Foo\n  **Source:** Bar\n",
      "# T\n\n## Children\n\ntail\n\n\n",
      "## Description and source\n## Parents\n" }

\* titles as the row extractor produces them (any non-empty stripped cell text)
ParentPool == {"A", "A|B"}
ChildPool == {"A", "a"}

Foo_Bar == <<"Foo", "Bar">>
foo_bar == <<"foo", "bar">>
x_only == <<"x", "">>
only_x == <<"", "x">>
two_lines == <<"l1\nl2", "s">>

\* leaf entries of one title, (description, source) stripped, as leaf_info holds
\* them, and the list with two empty strings the merger also accepts
LeafListPool ==
    { <<>>, <<Foo_Bar>>, <<foo_bar, Foo_Bar>>, <<only_x, x_only>>, <<two_lines>>,
      << <<"", "">> >> }

Request(P, C, L) == [parents |-> P, children |-> C, leaf_pairs |-> L]

\* the (add_parents, add_children, add_leaf_pairs) of an update: each argument
\* varied alone, and together
RequestPool ==
    {Request(P, {}, <<>>) : P \in SUBSET ParentPool}
    \cup {Request({}, C, <<>>) : C \in SUBSET ChildPool}
    \cup {Request({}, {}, L) : L \in LeafListPool}
    \cup {Request({"A"}, {"A"}, <<>>),
          Request(ParentPool, {"a"}, <<Foo_Bar, x_only>>)}

InitMerge ==
    /\ \/ files = NoDict
       \/ \E text \in DocPool : files = Put(NoDict, NotePath, text)
    /\ before = NoDict
    /\ req = NoReq
    /\ runs = 0
    /\ rows = <<>>
    /\ next_row = 1
    /\ parent_to_children = EmptyDict
    /\ child_to_parents = EmptyDict
    /\ leaf_info = EmptyDict
    /\ edge_count = 0
    /\ leaf_entry_count = 0
    /\ order = <<>>
    /\ done = 0
    /\ pc = "merge"

\* one call update_note_file_append_only(NotePath, NoteTitle, P, C, L); sp and sc
\* are the orders in which sorted() hands over the two sets
Update ==
    /\ pc = "merge"
    /\ runs < MaxRuns
    /\ \E r \in RequestPool :
         \E sp \in SortedByLower(r.parents), sc \in SortedByLower(r.children) :
            /\ files' = update_note_file_append_only(files, NotePath, NoteTitle, sp, sc,
                                                     r.leaf_pairs)
            /\ req' = [title |-> NoteTitle, parents |-> sp, children |-> sc,
                       leaf_pairs |-> r.leaf_pairs]
    /\ before' = files
    /\ runs' = runs + 1
    /\ UNCHANGED <<rows, next_row, parent_to_children, child_to_parents, leaf_info,
                   edge_count, leaf_entry_count, order, done, pc>>

NextMerge == Update

SpecMerge == InitMerge /\ [][NextMerge]_vars

-----------------------------------------------------------------------------
(* main(): rows -> graph -> one update per title *)

\* rows whose titles hold characters a file name cannot, or differ in case only
RunRowPool ==
    { Row(<<"N", "A/B">>, "", ""),
      Row(<<"N", "A:B">>, "d", "s"),
      Row(<<"n">>, "", ""),
      Row(<<"B", "N">>, "", "") }

\* the output directory before the run: empty, or holding a note of an earlier run
DirPool == {NoDict, Put(NoDict, "N.md", "# N\n\nkeep\n")}

\* filename = sanitize_filename(title) + ".md"
FileOf(title) == sanitize_filename(title) \o ".md"

InitRun ==
    /\ rows \in SeqsUpTo(RunRowPool, MaxRows)
    /\ files \in DirPool
    /\ before = files
    /\ next_row = 1
    /\ parent_to_children = EmptyDict
    /\ child_to_parents = EmptyDict
    /\ leaf_info = EmptyDict
    /\ edge_count = 0
    /\ leaf_entry_count = 0
    /\ req = NoReq
    /\ runs = 0
    /\ order = <<>>
    /\ done = 0
    /\ pc = "read"

\* "if not rows: return 4", else the call of build_title_graph_from_parts
CheckRows ==
    /\ pc = "read"
    /\ pc' = IF rows = <<>> THEN "exit" ELSE "build"
    /\ UNCHANGED <<files, before, req, runs, rows, next_row, parent_to_children,
                   child_to_parents, leaf_info, edge_count, leaf_entry_count,
                   order, done>>

\* "if not all_titles: return 5", or the operator answers no to the dry-run summary
Cancel ==
    /\ pc = "built"
    /\ pc' = "exit"
    /\ UNCHANGED <<files, before, req, runs, rows, next_row, parent_to_children,
                   child_to_parents, leaf_info, edge_count, leaf_entry_count,
                   order, done>>

\* the operator answers yes: the loop starts on sorted(all_titles, key=lower)
Proceed ==
    /\ pc = "built"
    /\ all_titles(Graph) # {}
    /\ order' \in SortedByLower(all_titles(Graph))
    /\ done' = 0
    /\ pc' = "write"
    /\ UNCHANGED <<files, before, req, runs, rows, next_row, parent_to_children,
                   child_to_parents, leaf_info, edge_count, leaf_entry_count>>

\* one iteration of "for title in sorted(all_titles, ...)": one read, one write
WriteTitle ==
    /\ pc = "write"
    /\ done < Len(order)
    /\ LET title == order[done + 1]
       IN  \E sp \in SortedByLower(Get(child_to_parents, title, {})),
              sc \in SortedByLower(Get(parent_to_children, title, {})) :
              /\ files' = update_note_file_append_only(files, FileOf(title), title, sp, sc,
                                                       Get(leaf_info, title, <<>>))
              /\ req' = [title |-> title, parents |-> sp, children |-> sc,
                         leaf_pairs |-> Get(leaf_info, title, <<>>)]
    /\ done' = done + 1
    /\ runs' = runs + 1
    /\ UNCHANGED <<before, rows, next_row, parent_to_children, child_to_parents,
                   leaf_info, edge_count, leaf_entry_count, order, pc>>

\* the loop is over: "Done! Updated/created {len(all_titles)} notes"
FinishRun ==
    /\ pc = "write"
    /\ done = Len(order)
    /\ pc' = "done"
    /\ UNCHANGED <<files, before, req, runs, rows, next_row, parent_to_children,
                   child_to_parents, leaf_info, edge_count, leaf_entry_count,
                   order, done>>

NextRun == CheckRows \/ BuildRow \/ FinishBuild \/ Cancel \/ Proceed \/ WriteTitle
           \/ FinishRun

SpecRun == InitRun /\ [][NextRun]_vars

-----------------------------------------------------------------------------
(* Claims about the graph builder *)

\* every label of every row
Labels(rs) == UNION {Range(rs[i].parts) : i \in DOMAIN rs}

\* the pairs (p, c) with p immediately followed by c in some row's parts
AdjacentPairs(rs) ==
    UNION {{<<rs[i].parts[j], rs[i].parts[j + 1]>> : j \in 1..(Len(rs[i].parts) - 1)}
           : i \in DOMAIN rs}

\* rs in every order
Reorderings(rs) ==
    {[i \in DOMAIN rs |-> rs[f[i]]] :
        f \in {h \in [DOMAIN rs -> DOMAIN rs] : \A i, j \in DOMAIN rs : i # j => h[i] # h[j]}}

SameGraphContent(g, h) == g.p2c = h.p2c /\ g.c2p = h.c2p /\ g.edges = h.edges

\* C7: once the builder has returned, c is in parent_to_children[p] iff p is in
\* child_to_parents[c] iff some row has p immediately followed by c; edge_count is
\* the number of such distinct pairs; the mappings and edge_count are the same
\* for the rows in any order and for the rows given twice.
GraphContent ==
    pc = "built" =>
        LET E == AdjacentPairs(rows)
            N == Labels(rows) \cup DOMAIN parent_to_children \cup DOMAIN child_to_parents
                 \cup UNION Range(parent_to_children) \cup UNION Range(child_to_parents)
        IN  /\ \A p, c \in N :
                 /\ (c \in Get(parent_to_children, p, {})) <=> (<<p, c>> \in E)
                 /\ (p \in Get(child_to_parents, c, {})) <=> (<<p, c>> \in E)
            /\ edge_count = Cardinality(E)
            /\ \A rs \in Reorderings(rows) :
                 SameGraphContent(build_title_graph_from_parts(rs), Graph)
            /\ SameGraphContent(build_title_graph_from_parts(rows \o rows), Graph)

\* C7 witness: rows [A,B,C] and [A,B,D] (A->B occurs twice) built: three edges
GraphContentWitness ==
    /\ pc = "built"
    /\ rows = <<Row(<<"A", "B", "C">>, "", ""), Row(<<"A", "B", "D">>, "d", "s")>>
    /\ edge_count = 3
    /\ parent_to_children["A"] = {"B"}
    /\ parent_to_children["B"] = {"C", "D"}

\* C8: once the builder has returned, every label at any position of any row is
\* a key of parent_to_children and of child_to_parents, hence one of all_titles.
NoTitleDropped ==
    pc = "built" =>
        /\ Labels(rows) \subseteq DOMAIN parent_to_children
        /\ Labels(rows) \subseteq DOMAIN child_to_parents
        /\ Labels(rows) \subseteq all_titles(Graph)

\* C8 witness: a single-label row whose title has no edge is a key of both
\* mappings, with the empty set
NoTitleDroppedWitness ==
    /\ pc = "built"
    /\ \E i \in DOMAIN rows :
         /\ Len(rows[i].parts) = 1
         /\ rows[i].parts[1] \in DOMAIN parent_to_children \cap DOMAIN child_to_parents
         /\ parent_to_children[rows[i].parts[1]] = {}
         /\ child_to_parents[rows[i].parts[1]] = {}

-----------------------------------------------------------------------------
(* Claims about the note merger *)

Acted == pc = "merge" /\ runs > 0

\* what the last update read, and the text it wrote
Existing == ReadFile(before, NotePath)
Written == files[NotePath]

\* the lines the last update started from
StartLines ==
    IF Existing = <<>> \/ SplitLines(Existing[1]) = <<>>
    THEN create_new_note_lines(req.title) ELSE SplitLines(Existing[1])

NewLines == SplitLines(Written)

RECURSIVE IsSubseq(_, _)
IsSubseq(a, b) ==
    IF a = <<>> THEN TRUE
    ELSE IF b = <<>> THEN FALSE
    ELSE IF a[1] = b[1] THEN IsSubseq(Tail(a), Tail(b))
    ELSE IsSubseq(a, Tail(b))

Count(x, sq) == Cardinality({i \in DOMAIN sq : sq[i] = x})

HasSection(lines, header) == find_section_range(lines, header)[1] # -1

\* the lines of a section after its heading, <<>> when there is no such section
Body(lines, header) ==
    LET r == find_section_range(lines, header)
    IN  IF r[1] = -1 THEN <<>> ELSE Slice(lines, r[1] + 1, r[2])

\* C1 as claimed: every line of a non-empty existing text is in the written text,
\* unmodified and in the original order.
Preservation ==
    (Acted /\ Existing # <<>> /\ Existing[1] # "") =>
        IsSubseq(SplitLines(Existing[1]), NewLines)

\* what the update keeps of the existing text: all of it when lines were added
\* after its end, all but the white space at its end otherwise
PreservationButTrailingSpace ==
    (Acted /\ Existing # <<>> /\ Existing[1] # "") =>
        \/ IsSubseq(SplitLines(Existing[1]), NewLines)
        \/ IsSubseq(SplitLines(RStrip(Existing[1])), NewLines)

\* C2 as claimed: the same request applied to the written text writes the same
\* text again, in whichever order sorted() hands over titles of equal key.
Idempotence ==
    Acted =>
        \A sp \in SortedByLower(Range(req.parents)),
           sc \in SortedByLower(Range(req.children)) :
            merged_text(<<Written>>, req.title, sp, sc, req.leaf_pairs) = Written

\* the requests below r: subsets of its parents and children, leaf-pair lists
\* made of pairs of its list
SubRequests(r) ==
    {[title |-> r.title, parents |-> sp, children |-> sc, leaf_pairs |-> L] :
        sp \in UNION {SortedByLower(S) : S \in SUBSET Range(r.parents)},
        sc \in UNION {SortedByLower(S) : S \in SUBSET Range(r.children)},
        L \in SeqsUpTo(Range(r.leaf_pairs), Len(r.leaf_pairs))}

TextFor(r) == merged_text(Existing, r.title, r.parents, r.children, r.leaf_pairs)

LineSet(text) == Range(SplitLines(text))

NoKeyClash(L) ==
    \A i, j \in DOMAIN L :
        normalize_leaf_pair(L[i][1], L[i][2]) = normalize_leaf_pair(L[j][1], L[j][2])
            => L[i] = L[j]

\* the non-blank lines of a text, without their trailing white space
ContentLines(text) == {RStrip(ln) : ln \in LineSet(text)} \ {""}

NoCrossSectionLeakage ==
    Acted =>
        /\ \A x \in Range(req.parents) \ Range(req.children) :
             Count(LinkLine(x), Body(NewLines, "Children"))
                <= Count(LinkLine(x), Body(StartLines, "Children"))
        /\ \A x \in Range(req.children) \ Range(req.parents) :
             Count(LinkLine(x), Body(NewLines, "Parents"))
                <= Count(LinkLine(x), Body(StartLines, "Parents"))

\* the keys of the Description/Source blocks of the section, one per block
LeafKeys(lines) ==
    LET r == find_section_range(lines, "Description and source")
    IN  IF r[1] = -1 THEN <<>>
        ELSE leaf_pair_scan(Slice(lines, r[1], r[2]), FALSE, "")

\* C5 as claimed: after any sequence of updates the section holds at most one
\* block per normalized key (no note of DocPool starts with two), and a pair
\* whose key a block already has adds no line.
LeafDedup ==
    Acted =>
        /\ \A k \in Range(LeafKeys(NewLines)) : Count(k, LeafKeys(NewLines)) <= 1
        /\ (req.parents = <<>> /\ req.children = <<>>
            /\ \A i \in DOMAIN req.leaf_pairs :
                 normalize_leaf_pair(req.leaf_pairs[i][1], req.leaf_pairs[i][2])
                    \in Range(LeafKeys(StartLines)))
           => Len(NewLines) <= Len(StartLines)

RequiredSections == {"Parents", "Children", "Description and source"}

Component(h) == IF h = "Parents" THEN req.parents
                ELSE IF h = "Children" THEN req.children ELSE req.leaf_pairs

-----------------------------------------------------------------------------
(* Claims about the run *)

InLoop == pc \in {"write", "done"}

\* C6 as claimed: two distinct titles never use the same file, and a run into an
\* empty directory leaves as many files as there are titles.
OneFilePerTitle ==
    /\ InLoop => \A t1, t2 \in all_titles(Graph) : t1 # t2 => FileOf(t1) # FileOf(t2)
    /\ (pc = "done" /\ before = NoDict) =>
          Cardinality(DOMAIN files) = Cardinality(all_titles(Graph))

\* the titles are taken once each, in case-insensitive order
OrderedOnce ==
    /\ Range(order) = all_titles(Graph)
    /\ Len(order) = Cardinality(all_titles(Graph))
    /\ \A i, j \in DOMAIN order : i < j => ~StrLess(Lower(order[j]), Lower(order[i]))

\* C9 as claimed: the loop takes the titles one at a time in case-insensitive
\* order; when it has written k titles, their files are there and the file of
\* every title still to come is as it was before the run.
RunOrder ==
    InLoop =>
        /\ OrderedOnce
        /\ runs = done
        /\ \A i \in 1..done : FileOf(order[i]) \in DOMAIN files
        /\ \A i \in (done + 1)..Len(order) :
             ReadFile(files, FileOf(order[i])) = ReadFile(before, FileOf(order[i]))

\* the same, for runs in which no two titles have the same file name
RunOrderWhenFilesDistinct ==
    (\A t1, t2 \in all_titles(Graph) : t1 # t2 => FileOf(t1) # FileOf(t2)) => RunOrder

-----------------------------------------------------------------------------
(* Claims about link append *)

LinkSections == {"Parents", "Children"}

\* the candidate set of the last update for a section
Candidates(h) == Range(Component(h))

\* the link targets the section had in the lines the update started from
OldTargets(h) ==
    LET r == find_section_range(StartLines, h)
    IN  IF r[1] = -1 THEN {} ELSE extract_existing_wikilinks(StartLines, r[1], r[2])

MissingLinks(h) == Candidates(h) \ OldTargets(h)

\* the body the section had; a section the update creates starts with the blank
\* line under its heading
OldBody(h) == IF HasSection(StartLines, h) THEN Body(StartLines, h) ELSE <<"">>

\* body is front, then one line "- [[x]]" per x of missing in case-insensitive
\* order, then `after`
EndsWithLinks(bdy, missing, front, after) ==
    \E sq \in SortedByLower(missing) :
        bdy = front \o [i \in DOMAIN sq |-> LinkLine(sq[i])] \o after

\* one line more for every missing candidate, none for the others
CountsAddedLinks(h) ==
    \A x \in Candidates(h) :
        Count(LinkLine(x), Body(NewLines, h))
          = Count(LinkLine(x), Body(StartLines, h))
            + (IF x \in MissingLinks(h) THEN 1 ELSE 0)

\* C11 to the letter: for a section with candidates, the update adds one line
\* "- [[Title]]" for exactly the candidates that were not a link target in the
\* section; when it adds any, the section's body is its former lines, then the new
\* lines in case-insensitive order, and the next heading (or the end) follows.
LinkAppendToTheLetter ==
    Acted =>
      \A h \in LinkSections :
        Candidates(h) # {} =>
          /\ HasSection(NewLines, h)
          /\ CountsAddedLinks(h)
          /\ MissingLinks(h) # {} =>
               EndsWithLinks(Body(NewLines, h), MissingLinks(h),
                             OldBody(h), <<>>)

Blanks(n) == [i \in 1..n |-> ""]

\* C11 as claimed: the same, where the blank separator line of a section the
\* update appends to the note may stand between the former lines and the new
\* lines, and between the new lines and the next heading.
LinkAppend ==
    Acted =>
      \A h \in LinkSections :
        Candidates(h) # {} =>
          /\ HasSection(NewLines, h)
          /\ CountsAddedLinks(h)
          /\ MissingLinks(h) # {} =>
               \E m, n \in 0..1 :
                  EndsWithLinks(Body(NewLines, h), MissingLinks(h),
                                OldBody(h) \o Blanks(m), Blanks(n))

-----------------------------------------------------------------------------
(* Claims about determinism *)

\* the texts the last update can write for what it read and its arguments: one
\* for every order in which sorted() can hand over the two sets
PossibleTexts ==
    {merged_text(Existing, req.title, sp, sc, req.leaf_pairs) :
        sp \in SortedByLower(Range(req.parents)),
        sc \in SortedByLower(Range(req.children))}

\* C12 as claimed: the text written is the same whichever way the two sets are
\* enumerated, also when they hold titles that differ only in letter case.
Determinism == Acted => PossibleTexts = {Written}

CaseTies(S) == \E x, y \in S : x # y /\ Lower(x) = Lower(y)

\* the same for sets without two titles that differ only in letter case
DeterminismWithoutCaseTies ==
    (~CaseTies(Range(req.parents)) /\ ~CaseTies(Range(req.children))) => Determinism

-----------------------------------------------------------------------------
(* Claims about leaf entries *)

\* the scan of extract_existing_leaf_pairs over ls, keeping the description and
\* the source of every block it recognises instead of their joint key
RECURSIVE leaf_block_scan(_, _, _)
leaf_block_scan(ls, has_desc, desc) ==
    IF ls = <<>> THEN <<>>
    ELSE LET t == Strip(ls[1])
         IN  IF StartsWith(t, DescPrefix)
             THEN leaf_block_scan(Tail(ls), TRUE,
                                  Strip(Sub(t, Len(DescPrefix) + 1, Len(t))))
             ELSE IF has_desc /\ StartsWith(t, SrcPrefix)
             THEN << <<desc, Strip(Sub(t, Len(SrcPrefix) + 1, Len(t)))>> >>
                  \o leaf_block_scan(Tail(ls), FALSE, "")
             ELSE leaf_block_scan(Tail(ls), has_desc, desc)

\* the (description, source) blocks of the "Description and source" section
LeafBlocks(lines) ==
    LET r == find_section_range(lines, "Description and source")
    IN  IF r[1] = -1 THEN {}
        ELSE Range(leaf_block_scan(Slice(lines, r[1], r[2]), FALSE, ""))

\* one field trimmed, white space collapsed, lower-cased
NormField(x) == Lower(Strip(CollapseWS(x)))

Represents(b, p) ==
    NormField(b[1]) = NormField(p[1]) /\ NormField(b[2]) = NormField(p[2])

NonEmptyPair(p) == Strip(p[1]) # "" \/ Strip(p[2]) # ""

\* C13 as claimed: after an update every incoming pair with a description or a
\* source has a block in the section with that description and that source, up
\* to trimming, white-space collapsing and case (so two incoming pairs that
\* differ in either field after normalization have a block each).
NoLeafEntryLost ==
    Acted =>
      \A i \in DOMAIN req.leaf_pairs :
        NonEmptyPair(req.leaf_pairs[i]) =>
          \E b \in LeafBlocks(NewLines) : Represents(b, req.leaf_pairs[i])

SingleLine(x) == Len(SplitLines(x)) <= 1

\* no field with a line break, and no two pairs, incoming or in the note, with
\* one key but different fields
KeysTellPairsApart ==
    LET pairs == Range(req.leaf_pairs) \cup LeafBlocks(StartLines)
    IN  /\ \A p \in Range(req.leaf_pairs) : SingleLine(p[1]) /\ SingleLine(p[2])
        /\ \A p, q \in pairs :
              normalize_leaf_pair(p[1], p[2]) = normalize_leaf_pair(q[1], q[2])
                 => Represents(p, q)

\* the same where the joint key tells the pairs apart
NoLeafEntryLostWhenKeysTellApart == KeysTellPairsApart => NoLeafEntryLost

====
